---- MODULE Spec2Model ----
(***************************************************************************)
(* A model of the notes chatbot: the Streamlit chat session of app.py      *)
(* (retrieve_context, generate_response, main), its upload path            *)
(* (load_models, process_uploaded_file) and the batch ingestion of         *)
(* preprocessing.py (DocumentProcessor.chunk_text, process_documents).     *)
(*                                                                         *)
(* Texts are sequences of one-character strings, so that str.split,        *)
(* str.join and str.strip are computed as Python computes them.            *)
(***************************************************************************)
EXTENDS Integers, Sequences, FiniteSets, TLC

VARIABLES
    \* ---- chat session (app.py main) ----
    messages,     \* st.session_state.messages
    pc,           \* position of main in the current turn
    prompt,       \* main's local: the accepted chat input
    context,      \* main's local: context returned by retrieve_context
    sources,      \* main's local: sources returned by retrieve_context
    response,     \* main's local: the answer text
    generated,    \* generate_response was invoked in the current turn
    stError,      \* the st.error output of the current script run
    collection,   \* the live Chroma collection "appunti_corso"
    upload,       \* outcome of the last "Add to Knowledge Base" click
    \* ---- chunk_text driven on its own ----
    ck_in,        \* [text, chunk_size, overlap]
    ck_out,       \* what chunk_text did with ck_in
    \* ---- process_uploaded_file driven on its own ----
    up_collection,
    up_calls,     \* the calls made so far, with the count after each
    \* ---- batch ingestion (preprocessing.py) ----
    folder,       \* the files of data_folder, in rglob order
    run,          \* which ingestion run is executing
    ing_pc,       \* position of the run
    fileIdx,      \* loop index of "for file_path in files"
    all_documents,
    all_metadatas,
    all_ids,
    skipped,      \* names printed with "Nessun testo estratto"
    ing_collection,
    runs,         \* the collection each finished run left on disk
    \* ---- retrieve_context driven on its own ----
    rc_in,        \* [raised, hits]: the store's answer to the query
    rc_out        \* what retrieve_context returned for rc_in

chatVars   == <<messages, pc, prompt, context, sources, response, generated,
                stError, collection, upload>>
chunkVars  == <<ck_in, ck_out>>
uploadVars == <<up_collection, up_calls>>
ingestVars == <<folder, run, ing_pc, fileIdx, all_documents, all_metadatas,
                all_ids, skipped, ing_collection, runs>>
retrVars   == <<rc_in, rc_out>>
vars == <<chatVars, chunkVars, uploadVars, ingestVars, retrVars>>

\* ---------------------------------------------------------------- bounds
MaxTextLen == 5      \* characters of a text given to chunk_text
MaxChunkSize == 3    \* largest chunk_size tried
MaxTurns == 2        \* user turns kept in the history before a reset
MaxCalls == 2        \* direct calls of process_uploaded_file
MaxFiles == 2        \* files in the data folder
MaxRuns == 2         \* ingestion runs made

\* ------------------------------------------------------- Python strings
Chars == {"a", "b", " "}

\* the characters str.split and str.strip treat as whitespace
IsSpace(c) == c \in {" ", "\n"}

Min(a, b) == IF a < b THEN a ELSE b

\* ceil(a / b) for a >= 0, b > 0
CeilDiv(a, b) == (a + b - 1) \div b

RECURSIVE SplitFrom(_, _, _, _)
SplitFrom(s, i, cur, acc) ==
    IF i > Len(s)
    THEN IF cur = <<>> THEN acc ELSE Append(acc, cur)
    ELSE IF IsSpace(s[i])
         THEN SplitFrom(s, i + 1, <<>>, IF cur = <<>> THEN acc ELSE Append(acc, cur))
         ELSE SplitFrom(s, i + 1, Append(cur, s[i]), acc)

\* str.split(): the maximal runs of non-whitespace characters
Split(s) == SplitFrom(s, 1, <<>>, <<>>)

RECURSIVE Join(_, _)
\* sep.join(parts)
Join(sep, parts) ==
    IF parts = <<>> THEN <<>>
    ELSE IF Len(parts) = 1 THEN parts[1]
    ELSE parts[1] \o sep \o Join(sep, Tail(parts))

RECURSIVE LStrip(_)
LStrip(s) == IF s # <<>> /\ IsSpace(s[1]) THEN LStrip(Tail(s)) ELSE s

RECURSIVE RStrip(_)
RStrip(s) ==
    IF s # <<>> /\ IsSpace(s[Len(s)]) THEN RStrip(SubSeq(s, 1, Len(s) - 1)) ELSE s

\* str.strip()
Strip(s) == RStrip(LStrip(s))

\* seq[i:j] with 0-based i, j >= i, clipped to the sequence
Slice(seq, i, j) == SubSeq(seq, i + 1, Min(j, Len(seq)))

RECURSIVE RangeFrom(_, _, _)
RangeFrom(i, stop, step) ==
    IF i >= stop THEN <<>> ELSE <<i>> \o RangeFrom(i + step, stop, step)

\* range(0, stop, step) for step # 0: empty when step < 0 and stop >= 0
PyRange(stop, step) == IF step < 0 THEN <<>> ELSE RangeFrom(0, stop, step)

\* ------------------------------------------------------------ chunk_text
DefaultChunkSize == 500
DefaultOverlap == 50

WindowStep_NoOverlap(chunk_size, overlap) == chunk_size

\* the step of the range in chunk_text
WindowStep(chunk_size, overlap) == chunk_size - overlap

Window_TooLong(words, i, chunk_size) == Join(<<" ">>, Slice(words, i, i + chunk_size + 1))

\* ' '.join(words[i:i + chunk_size])
Window(words, i, chunk_size) == Join(<<" ">>, Slice(words, i, i + chunk_size))

\* DocumentProcessor.chunk_text: range() raises ValueError on a zero step,
\* before the loop body runs; a negative step gives an empty range.
chunk_text(text, chunk_size, overlap) ==
    LET words == Split(text)
        step == WindowStep(chunk_size, overlap)
    IN  IF step = 0
        THEN [raised |-> "ValueError", chunks |-> <<>>]
        ELSE LET starts == PyRange(Len(words), step)
                 all == [k \in 1..Len(starts) |-> Window(words, starts[k], chunk_size)]
             IN  [raised |-> "none",
                  chunks |-> SelectSeq(all, LAMBDA c : Strip(c) # <<>>)]

\* ------------------------------------------- chunk_text driven on its own
Texts == UNION {[1..n -> Chars] : n \in 0..MaxTextLen}

Pending == [raised |-> "pending", chunks |-> <<>>]

ChunkOff == ck_in = [text |-> <<>>, chunk_size |-> 1, overlap |-> 0] /\ ck_out = Pending

ChunkInit ==
    /\ ck_in \in [text : Texts, chunk_size : 1..MaxChunkSize, overlap : 0..(MaxChunkSize + 1)]
    /\ ck_out = Pending

\* one call chunk_text(text, chunk_size, overlap)
ChunkCall ==
    /\ ck_out = Pending
    /\ ck_out' = chunk_text(ck_in.text, ck_in.chunk_size, ck_in.overlap)
    /\ UNCHANGED ck_in

ChunkReturned == ck_out # Pending

\* the words of the k-th returned chunk
ChunkWords(k) == Split(ck_out.chunks[k])

LastWords(ws, n) == SubSeq(ws, Len(ws) - n + 1, Len(ws))

\* C3: chunk_text with overlap >= chunk_size is rejected with an error and
\* never returns a chunk list as if the configuration were valid.
C3_OverlapRejected ==
    (ChunkReturned /\ ck_in.overlap >= ck_in.chunk_size) => ck_out.raised # "none"

\* C4 as stated: with 0 <= O < C every chunk after the first has the last O
\* words of its predecessor as its first O words, short final chunks included.
C4_ExactOverlap ==
    (ChunkReturned /\ ck_in.overlap < ck_in.chunk_size) =>
        \A k \in 2..Len(ck_out.chunks) :
            /\ Len(ChunkWords(k)) >= ck_in.overlap
            /\ Len(ChunkWords(k - 1)) >= ck_in.overlap
            /\ SubSeq(ChunkWords(k), 1, ck_in.overlap)
                   = LastWords(ChunkWords(k - 1), ck_in.overlap)

\* C4 amended: with 0 <= O < C every chunk after the first that has at least
\* O words has the last O words of its predecessor as its first O words; a
\* final chunk with fewer than O words is a suffix of its predecessor, with
\* which it shares all of its words.
C4_OverlapOrSuffix ==
    (ChunkReturned /\ ck_in.overlap < ck_in.chunk_size) =>
        \A k \in 2..Len(ck_out.chunks) :
            LET w == ChunkWords(k)
                p == ChunkWords(k - 1)
            IN  IF Len(w) >= ck_in.overlap
                THEN /\ Len(p) >= ck_in.overlap
                     /\ SubSeq(w, 1, ck_in.overlap) = LastWords(p, ck_in.overlap)
                ELSE /\ Len(p) > Len(w)
                     /\ w = LastWords(p, Len(w))

\* a call with O >= 2 whose last chunk is shorter than O words, after a chunk
\* that shares exactly O words with its predecessor
C4_Witness ==
    /\ ChunkReturned
    /\ ck_in.overlap >= 2
    /\ ck_in.overlap < ck_in.chunk_size
    /\ Len(ck_out.chunks) >= 3
    /\ Len(ChunkWords(2)) >= ck_in.overlap
    /\ ChunkWords(1) # ChunkWords(2)
    /\ Len(ChunkWords(Len(ck_out.chunks))) < ck_in.overlap

\* C5: with 0 <= O < C the number of chunks is within 1 of ceil(L / (C - O)),
\* L the number of words; a text without words gives the empty sequence and
\* no error; no chunk is empty or longer than C words.
C5_ChunkCount ==
    (ChunkReturned /\ ck_in.overlap < ck_in.chunk_size) =>
        LET L == Len(Split(ck_in.text))
            n == Len(ck_out.chunks)
            expected == CeilDiv(L, ck_in.chunk_size - ck_in.overlap)
        IN  /\ ck_out.raised = "none"
            /\ n - expected \in {-1, 0, 1}
            /\ (L = 0 => ck_out.chunks = <<>>)
            /\ \A k \in 1..n :
                   /\ ck_out.chunks[k] # <<>>
                   /\ Len(ChunkWords(k)) \in 1..ck_in.chunk_size

\* a call on three words that returns several chunks, one of them full
C5_Witness ==
    /\ ChunkReturned
    /\ ck_in.overlap >= 1
    /\ ck_in.overlap < ck_in.chunk_size
    /\ Len(Split(ck_in.text)) = 3
    /\ Len(ck_out.chunks) >= 2
    /\ Len(ChunkWords(1)) = ck_in.chunk_size

\* ------------------------------------------------------ the vector store
NoSource == "<no source key>"

\* a record of the collection: id, document text, metadata "source"
Rec(id, doc, src) == [id |-> id, document |-> doc, source |-> src]

RecordPool ==
    { Rec(<<"n1.pdf", "_", 0>>, <<"x">>, "n1.pdf"),
      Rec(<<"n1.pdf", "_", 1>>, <<"y">>, "n1.pdf"),
      Rec(<<"n2.pdf", "_", 0>>, <<>>, "n2.pdf"),
      Rec(<<"old", "_", 0>>, <<"z">>, NoSource) }

\* the contents the persisted collection may have when the app starts
Collections == SUBSET RecordPool

\* the injective sequences of length n over the set S
RECURSIVE Arrangements(_, _)
Arrangements(S, n) ==
    IF n = 0 THEN {<<>>}
    ELSE UNION {{<<x>> \o t : t \in Arrangements(S \ {x}, n - 1)} : x \in S}

\* collection.query(query_embeddings=[e], n_results=k): the k nearest records
\* (all of them when the collection holds fewer), in a rank order that the
\* embedding decides; one inner list per query embedding.
QueryResults(coll, k) ==
    { [documents |-> << [i \in 1..Len(hits) |-> hits[i].document] >>,
       metadatas |-> << [i \in 1..Len(hits) |-> hits[i].source] >>] :
      hits \in Arrangements(coll, Min(k, Cardinality(coll))) }

\* collection.add on a backend that upserts on a duplicate id
CollectionAdd(coll, rec) == {r \in coll : r.id # rec.id} \cup {rec}

\* ------------------------------------------------------ retrieve_context
N_RESULTS == 3

MetadataSource_NoDefault(m) == m

\* metadata.get('source', 'Unknown')
MetadataSource(m) == IF m = NoSource THEN "Unknown" ELSE m

\* list(sources): the elements of the set, each once, in an unspecified order
ListOfSet(S) == Arrangements(S, Cardinality(S))

\* what retrieve_context returns for a store result: the except branch
\* (raised) reports through st.error and returns ("", [])
retrieve_context(raised, results) ==
    IF raised
    THEN {[context |-> <<>>, sources |-> <<>>, stError |-> "Retrieval error"]}
    ELSE LET docs == results.documents[1]
             metas == results.metadatas[1]
             contexts == IF results.documents # <<>> /\ Len(results.documents) > 0
                         THEN docs ELSE <<>>
             srcset == IF results.documents # <<>> /\ Len(results.documents) > 0
                       THEN {MetadataSource(metas[i]) : i \in 1..Min(Len(docs), Len(metas))}
                       ELSE {}
         IN  {[context |-> Join(<<"\n", "\n">>, contexts), sources |-> l, stError |-> ""] :
              l \in ListOfSet(srcset)}

\* ----------------------------------------------------- generate_response
Answers == {<<"answer">>}
FailureReasons == {"rate limit"}

\* the completion text, or on any exception the error string with str(e)
generate_response(failure, answer) ==
    IF failure # "" THEN <<"Response generation error: ", failure>> ELSE answer

IsGenerationError(text) == Len(text) = 2 /\ text[1] = "Response generation error: "

\* ------------------------------------------------------------------ main
Prompts == {"q1"}

NoInfoMsg == <<"I couldn't find relevant information in the notes to answer this question.">>

UserTurn(p) == [role |-> "user", content |-> <<p>>]

AssistantTurn(r, srcs) == [role |-> "assistant", content |-> r, sources |-> srcs]

MainBranch_AlwaysGenerate(ctx, srcs) ==
    [pc |-> "Generating", response |-> <<>>, sources |-> srcs]

\* "if not context: ... else: ..." after retrieve_context returned
MainBranch(ctx, srcs) ==
    IF ctx = <<>>
    THEN [pc |-> "Done", response |-> NoInfoMsg, sources |-> <<>>]
    ELSE [pc |-> "Generating", response |-> <<>>, sources |-> srcs]

SaveAssistant_OnlyWithSources(msgs, r, srcs) ==
    IF srcs = <<>> THEN msgs ELSE Append(msgs, AssistantTurn(r, srcs))

\* st.session_state.messages.append({"role": "assistant", ...})
SaveAssistant(msgs, r, srcs) == Append(msgs, AssistantTurn(r, srcs))

\* ------------------------------------------------------------ upload path
\* the names bound at module level in app.py (its imports)
ModuleNames == {"os", "st", "chromadb", "SentenceTransformer", "Groq"}

\* the names process_uploaded_file looks up before anything else:
\* tempfile.NamedTemporaryFile(..., suffix=Path(uploaded_file.name).suffix)
TempFileNames == {"tempfile", "Path"}

\* an uploaded file: its name, the ending of the name, and the chunks that
\* loader.load() and split_documents make of its content
UploadFile(name, ending, chunks) == [name |-> name, ending |-> ending, chunks |-> chunks]

UploadFiles ==
    { UploadFile("a.txt", ".txt", << <<"p">>, <<"q">> >>),
      UploadFile("n1.pdf", ".pdf", << <<"x">> >>),
      UploadFile("c.PDF", ".PDF", << <<"r">> >>) }

\* where the environment fails during one call: 0 nowhere, -1 in
\* loader.load()/split_documents, k > 0 in encode/add of the k-th chunk
FailPoints(file) == {-1, 0} \cup (1..Len(file.chunks))

\* f"{uploaded_file.name}_{i}"
UploadId(file, i) == <<file.name, "_", i>>

RECURSIVE AddChunks(_, _, _)
\* the first m rounds of "for i, chunk in enumerate(chunks): collection.add(...)"
AddChunks(coll, file, m) ==
    IF m = 0 THEN coll
    ELSE CollectionAdd(AddChunks(coll, file, m - 1),
                       Rec(UploadId(file, m - 1), file.chunks[m], file.name))

Outcome(ok, msg, coll) == [success |-> ok, message |-> msg, collection |-> coll]

\* the body of process_uploaded_file once its names are resolved
UploadBody(file, coll, failAt) ==
    IF file.ending # ".pdf" /\ file.ending # ".txt"
    THEN Outcome(FALSE, <<"Unsupported file type. Please upload PDF or TXT files.">>, coll)
    ELSE IF failAt = -1
    THEN Outcome(FALSE, <<"Error processing file: ", "load">>, coll)
    ELSE IF failAt \in 1..Len(file.chunks)
    THEN Outcome(FALSE, <<"Error processing file: ", "add">>, AddChunks(coll, file, failAt - 1))
    ELSE Outcome(TRUE, <<"Successfully added ", Len(file.chunks), " chunks from ", file.name>>,
                 AddChunks(coll, file, Len(file.chunks)))

process_uploaded_file_Appending(file, coll, failAt) ==
    Outcome(TRUE, <<"Successfully added ", Len(file.chunks), " chunks from ", file.name>>,
            coll \cup { Rec(<<file.name, "_", Cardinality(coll) + i>>, file.chunks[i], file.name) :
                        i \in 1..Len(file.chunks) })

\* process_uploaded_file: the whole body is inside try/except Exception, and
\* its first statement looks up names that app.py never imports
process_uploaded_file(file, coll, failAt) ==
    IF ~(TempFileNames \subseteq ModuleNames)
    THEN Outcome(FALSE, <<"Error processing file: ", "name 'tempfile' is not defined">>, coll)
    ELSE UploadBody(file, coll, failAt)

\* load_models: (embedding_model, collection), or (None, None) on an exception
load_models(ok) ==
    IF ok THEN <<"embedding_model", "collection">> ELSE <<"None", "None">>

\* "embedding_model, collection, _ = load_models()" and what follows it in
\* main; an exception leaves main and is reported by the handler around main()
UploadClick(file, coll, failAt, loadOk) ==
    LET t == load_models(loadOk)
        quiet == [clicked |-> TRUE, file |-> file.name, stepsOk |-> (failAt = 0 /\ loadOk)]
    IN  IF Len(t) # 3
        THEN [report |-> quiet @@ [status |-> "critical",
                                    message |-> <<"not enough values to unpack (expected 3, got 2)">>,
                                    added |-> 0],
              collection |-> coll, stError |-> "Critical error"]
        ELSE IF t[1] = "None" \/ t[2] = "None"
        THEN [report |-> quiet @@ [status |-> "error", message |-> <<"Cannot load models">>,
                                    added |-> 0],
              collection |-> coll, stError |-> "Cannot load models"]
        ELSE LET r == process_uploaded_file(file, coll, failAt)
             IN  [report |-> quiet @@ [status |-> IF r.success THEN "success" ELSE "error",
                                        message |-> r.message,
                                        added |-> Cardinality(r.collection \ coll)],
                  collection |-> r.collection,
                  stError |-> IF r.success THEN "" ELSE "upload error"]

\* no upload was made in this script run
NoUpload == [clicked |-> FALSE, file |-> "", stepsOk |-> FALSE, status |-> "none",
             message |-> <<>>, added |-> 0]

\* ---------------------------------------------------- the chat session
ChatInit ==
    /\ messages = <<>> /\ pc = "Idle" /\ prompt = "" /\ context = <<>>
    /\ sources = <<>> /\ response = <<>> /\ generated = FALSE
    /\ stError = "" /\ upload = NoUpload
    /\ collection \in Collections

\* a chat input is accepted: the user turn is appended (line 298)
UserMessage ==
    /\ pc = "Idle"
    /\ Len(messages) < 2 * MaxTurns
    /\ \E p \in Prompts :
          /\ messages' = Append(messages, UserTurn(p))
          /\ prompt' = p
    /\ pc' = "Retrieving"
    /\ stError' = ""
    /\ upload' = NoUpload
    /\ UNCHANGED <<context, sources, response, generated, collection>>

\* retrieve_context(prompt, collection, embedding_model) and the branch on
\* its context (lines 307-312)
Retrieve ==
    /\ pc = "Retrieving"
    /\ \E raised \in BOOLEAN, results \in QueryResults(collection, N_RESULTS) :
          \E out \in retrieve_context(raised, results) :
              LET b == MainBranch(out.context, out.sources)
              IN  /\ context' = out.context
                  /\ sources' = b.sources
                  /\ response' = b.response
                  /\ pc' = b.pc
                  /\ stError' = out.stError
    /\ UNCHANGED <<messages, prompt, generated, collection, upload>>

\* generate_response(prompt, context, groq_client, model_choice) (line 315)
Generate ==
    /\ pc = "Generating"
    /\ \E failure \in FailureReasons \cup {""}, answer \in Answers :
          response' = generate_response(failure, answer)
    /\ generated' = TRUE
    /\ pc' = "Done"
    /\ UNCHANGED <<messages, prompt, context, sources, stError, collection, upload>>

\* the assistant turn is saved (lines 325-329) and the script run ends
SaveResponse ==
    /\ pc = "Done"
    /\ messages' = SaveAssistant(messages, response, sources)
    /\ pc' = "Idle"
    /\ prompt' = "" /\ context' = <<>> /\ sources' = <<>> /\ response' = <<>>
    /\ generated' = FALSE
    /\ UNCHANGED <<stError, collection, upload>>

\* the "Clear history" button (lines 263-265)
ClearHistory ==
    /\ pc = "Idle"
    /\ messages' = <<>>
    /\ stError' = ""
    /\ upload' = NoUpload
    /\ UNCHANGED <<pc, prompt, context, sources, response, generated, collection>>

\* the "Add to Knowledge Base" button (lines 227-243)
Upload ==
    /\ pc = "Idle"
    /\ \E file \in UploadFiles, loadOk \in BOOLEAN :
          \E failAt \in FailPoints(file) :
              LET u == UploadClick(file, collection, failAt, loadOk)
              IN  /\ upload' = u.report
                  /\ collection' = u.collection
                  /\ stError' = u.stError
    /\ UNCHANGED <<messages, pc, prompt, context, sources, response, generated>>

\* ------------------------------------- process_uploaded_file driven on its own
UploadInit == up_collection \in Collections /\ up_calls = <<>>

\* one call process_uploaded_file(uploaded_file, collection, embedding_model)
DirectUpload ==
    /\ Len(up_calls) < MaxCalls
    /\ \E file \in UploadFiles :
          \E failAt \in FailPoints(file) :
              LET r == process_uploaded_file(file, up_collection, failAt)
              IN  /\ up_collection' = r.collection
                  /\ up_calls' = Append(up_calls,
                         [file |-> file.name, failAt |-> failAt, success |-> r.success,
                          count |-> Cardinality(r.collection)])

\* ------------------------------------------------------ batch ingestion
\* a file under data_folder: name, suffix, the text of its pages (or what OCR
\* reads), and whether PdfReader / Image.open can read it
DataFile(name, suffix, pages, readable) ==
    [name |-> name, suffix |-> suffix, pages |-> pages, readable |-> readable]

FilePool ==
    { DataFile("n1.pdf", ".pdf", << <<"a", " ", "b">> >>, TRUE),
      DataFile("N2.PDF", ".PDF", << <<"b">>, <<"a">> >>, TRUE),
      DataFile("scan.png", ".png", << <<" ">> >>, TRUE),
      DataFile("bad.pdf", ".pdf", <<>>, FALSE),
      DataFile("notes.txt", ".txt", << <<"a">> >>, TRUE) }

\* str.lower() on the suffixes of the pool
Lower(suffix) == IF suffix = ".PDF" THEN ".pdf" ELSE suffix

SupportedExtensions == {".pdf", ".png", ".jpg", ".jpeg", ".bmp", ".tiff"}

Files_CaseSensitive(dir) == SelectSeq(dir, LAMBDA f : f.suffix \in SupportedExtensions)

\* files = [f for f in rglob('*') if f.suffix.lower() in supported_extensions]
Files(dir) == SelectSeq(dir, LAMBDA f : Lower(f.suffix) \in SupportedExtensions)

RECURSIVE PagesText(_)
\* text += page.extract_text() + "\n" over the pages
PagesText(pages) ==
    IF pages = <<>> THEN <<>> ELSE pages[1] \o <<"\n">> \o PagesText(Tail(pages))

\* extract_text_from_pdf: "" when reading raises
extract_text_from_pdf(f) == IF f.readable THEN Strip(PagesText(f.pages)) ELSE <<>>

\* extract_text_from_image: "" when OCR raises
extract_text_from_image(f) == IF f.readable THEN Strip(f.pages[1]) ELSE <<>>

\* lines 103-106
ExtractText(f) ==
    IF Lower(f.suffix) = ".pdf" THEN extract_text_from_pdf(f) ELSE extract_text_from_image(f)

\* the values uuid.uuid4() may return
UUIDs == 1..(MaxFiles + 1)

SeqRange(seq) == {seq[i] : i \in 1..Len(seq)}

Folders == UNION {Arrangements(FilePool, n) : n \in 0..MaxFiles}

IngestInit ==
    /\ folder \in Folders
    /\ run = 0 /\ ing_pc = "idle" /\ fileIdx = 0
    /\ all_documents = <<>> /\ all_metadatas = <<>> /\ all_ids = <<>>
    /\ skipped = <<>> /\ runs = <<>>
    /\ ing_collection \in {{}, {[id |-> 0, document |-> <<"z">>, source |-> "old.pdf",
                                 chunk_id |-> 0, type |-> "pdf"]}}

\* DocumentProcessor.__init__ deletes and recreates the collection;
\* process_documents starts with empty lists (lines 35-45, 89-95)
StartRun ==
    /\ ing_pc = "idle"
    /\ run < MaxRuns
    /\ run' = run + 1
    /\ ing_collection' = {}
    /\ all_documents' = <<>> /\ all_metadatas' = <<>> /\ all_ids' = <<>>
    /\ skipped' = <<>>
    /\ fileIdx' = 1
    /\ ing_pc' = "files"
    /\ UNCHANGED <<folder, runs>>

\* one round of "for file_path in files" (lines 99-124)
ProcessFile ==
    /\ ing_pc = "files"
    /\ fileIdx <= Len(Files(folder))
    /\ LET f == Files(folder)[fileIdx]
           text == ExtractText(f)
           chunks == chunk_text(text, DefaultChunkSize, DefaultOverlap).chunks
       IN  IF text = <<>>
           THEN /\ skipped' = Append(skipped, f.name)
                /\ UNCHANGED <<all_documents, all_metadatas, all_ids>>
           ELSE /\ \E ids \in Arrangements(UUIDs \ SeqRange(all_ids), Len(chunks)) :
                       all_ids' = all_ids \o ids
                /\ all_documents' = all_documents \o chunks
                /\ all_metadatas' = all_metadatas \o
                       [i \in 1..Len(chunks) |->
                           [source |-> f.name, chunk_id |-> i - 1,
                            type |-> IF Lower(f.suffix) = ".pdf" THEN "pdf" ELSE "image"]]
                /\ UNCHANGED skipped
    /\ fileIdx' = fileIdx + 1
    /\ UNCHANGED <<folder, run, ing_pc, ing_collection, runs>>

\* the records collection.add stores for the three parallel lists
BatchRecords(docs, metas, ids) ==
    { [id |-> ids[i], document |-> docs[i], source |-> metas[i].source,
       chunk_id |-> metas[i].chunk_id, type |-> metas[i].type] : i \in 1..Len(docs) }

\* after the loop: encode everything and add it in one call (lines 127-145);
\* an exception of encode or add leaves process_documents
AddAll ==
    /\ ing_pc = "files"
    /\ fileIdx > Len(Files(folder))
    /\ \E ok \in BOOLEAN :
          LET stored == IF all_documents # <<>> /\ ok
                        THEN BatchRecords(all_documents, all_metadatas, all_ids)
                        ELSE {}
              result == [completed |-> (ok \/ all_documents = <<>>), collection |-> stored]
          IN  /\ ing_collection' = stored
              /\ runs' = IF Len(runs) = 2 THEN <<runs[2], result>> ELSE Append(runs, result)
    /\ ing_pc' = "idle"
    /\ UNCHANGED <<folder, run, fileIdx, all_documents, all_metadatas, all_ids, skipped>>

\* ------------------------------------- retrieve_context driven on its own
HitTexts == {<<>>, <<"x">>, <<"y">>}

HitSources == {"n1.pdf", "n2.pdf", NoSource}

\* a record the store returns: its text and its metadata "source"
Hits == [document : HitTexts, source : HitSources]

\* the hits of one query, in rank order: at most n_results of them
HitLists == UNION {[1..n -> Hits] : n \in 0..N_RESULTS}

\* the dictionary collection.query returns for the hits
ResultsOf(hits) ==
    [documents |-> << [i \in 1..Len(hits) |-> hits[i].document] >>,
     metadatas |-> << [i \in 1..Len(hits) |-> hits[i].source] >>]

RetrievePending == [context |-> <<>>, sources |-> <<>>, stError |-> "pending"]

RetrieveOff == rc_in = [raised |-> FALSE, hits |-> <<>>] /\ rc_out = RetrievePending

RetrieveInit ==
    /\ rc_in \in [raised : BOOLEAN, hits : HitLists]
    /\ rc_out = RetrievePending

\* one call retrieve_context(query, collection, embedding_model)
RetrieveCall ==
    /\ rc_out = RetrievePending
    /\ rc_out' \in retrieve_context(rc_in.raised, ResultsOf(rc_in.hits))
    /\ UNCHANGED rc_in

\* ------------------------------------------------ parts that are not running
ChatOff ==
    /\ messages = <<>> /\ pc = "Idle" /\ prompt = "" /\ context = <<>>
    /\ sources = <<>> /\ response = <<>> /\ generated = FALSE
    /\ stError = "" /\ collection = {} /\ upload = NoUpload

UploadOff == up_collection = {} /\ up_calls = <<>>

IngestOff ==
    /\ folder = <<>> /\ run = 0 /\ ing_pc = "off" /\ fileIdx = 0
    /\ all_documents = <<>> /\ all_metadatas = <<>> /\ all_ids = <<>>
    /\ skipped = <<>> /\ ing_collection = {} /\ runs = <<>>

\* ------------------------------------------ specification: chunk_text alone
InitChunk == ChunkInit /\ ChatOff /\ UploadOff /\ IngestOff /\ RetrieveOff

ChunkStep == ChunkCall /\ UNCHANGED <<chatVars, uploadVars, ingestVars, retrVars>>

NextChunk == ChunkStep

SpecChunk == InitChunk /\ [][NextChunk]_vars

\* ------------------------------------------ specification: the chat session
Init == ChatInit /\ ChunkOff /\ UploadOff /\ IngestOff /\ RetrieveOff

UserMessageStep == UserMessage /\ UNCHANGED <<chunkVars, uploadVars, ingestVars, retrVars>>
RetrieveStep == Retrieve /\ UNCHANGED <<chunkVars, uploadVars, ingestVars, retrVars>>
GenerateStep == Generate /\ UNCHANGED <<chunkVars, uploadVars, ingestVars, retrVars>>
SaveResponseStep == SaveResponse /\ UNCHANGED <<chunkVars, uploadVars, ingestVars, retrVars>>
ClearHistoryStep == ClearHistory /\ UNCHANGED <<chunkVars, uploadVars, ingestVars, retrVars>>
UploadStep == Upload /\ UNCHANGED <<chunkVars, uploadVars, ingestVars, retrVars>>

Next ==
    \/ UserMessageStep
    \/ RetrieveStep
    \/ GenerateStep
    \/ SaveResponseStep
    \/ ClearHistoryStep
    \/ UploadStep

Spec == Init /\ [][Next]_vars

\* ------------------------------------------------ claims on the chat session
Last(seq) == seq[Len(seq)]

NoInfoTurn == AssistantTurn(NoInfoMsg, <<>>)

\* C1: when retrieve_context yields an empty context (as it does on an empty
\* collection), generate_response is not invoked in that turn and the
\* assistant turn appended to the history is the fixed "no relevant
\* information" message with an empty source list.
C1_EmptyContextNoGeneration ==
    [][ /\ (pc = "Retrieving" /\ collection = {}) => (context' = <<>> /\ sources' = <<>>)
        /\ (pc = "Retrieving" /\ context' = <<>>) =>
               (pc' = "Done" /\ ~generated' /\ response' = NoInfoMsg /\ sources' = <<>>)
        /\ (~generated /\ generated') => context # <<>>
        /\ (pc = "Done" /\ pc' = "Idle" /\ context = <<>>) =>
               (~generated /\ messages' = Append(messages, NoInfoTurn)) ]_vars

\* a turn on an empty collection, without a retrieval error, that ended with
\* the "no relevant information" turn in the history
C1_Witness ==
    /\ pc = "Idle"
    /\ collection = {}
    /\ stError = ""
    /\ Len(messages) = 2
    /\ Last(messages) = NoInfoTurn

\* C2: when generation fails in a turn whose retrieval returned a non-empty
\* context, generate_response returns a text that embeds the failure reason
\* and the assistant turn appended for that turn has an empty or absent
\* source list.
C2_FailedGenerationNoSources ==
    (pc = "Idle" /\ messages # <<>> /\ IsGenerationError(Last(messages).content)) =>
        /\ Last(messages).content[2] \in FailureReasons
        /\ ("sources" \notin DOMAIN Last(messages) \/ Last(messages).sources = <<>>)

\* C7: an upload of a pdf or txt file whose loading, splitting, embedding and
\* store-add all succeed adds one record per chunk to the live collection
\* and reports success with the number of chunks; failure is reported only
\* when a step fails or the file type is unsupported.
C7_UploadReportsSuccess ==
    \A file \in UploadFiles :
        (upload.clicked /\ upload.file = file.name /\ upload.stepsOk
             /\ file.ending \in {".pdf", ".txt"}) =>
            /\ upload.status = "success"
            /\ upload.message = <<"Successfully added ", Len(file.chunks), " chunks from ", file.name>>
            /\ \A i \in 1..Len(file.chunks) :
                   Rec(UploadId(file, i - 1), file.chunks[i], file.name) \in collection

\* C8: a failure inside retrieve_context (embedding or store query raising)
\* is propagated as an error for that turn; it is not turned into an empty
\* context that main records as a normal "no relevant information" answer.
C8_RetrievalFailurePropagates ==
    (pc = "Idle" /\ stError = "Retrieval error" /\ messages # <<>>) =>
        Last(messages) # NoInfoTurn

\* the history is user, assistant, user, assistant, ...
Alternates(msgs) ==
    \A i \in 1..Len(msgs) :
        IF i % 2 = 1
        THEN msgs[i].role = "user" /\ DOMAIN msgs[i] = {"role", "content"}
        ELSE msgs[i].role = "assistant" /\ DOMAIN msgs[i] = {"role", "content", "sources"}

C10_TurnStates ==
    /\ pc \in {"Idle", "Retrieving", "Generating", "Done"}
    /\ Alternates(messages)
    /\ pc = "Idle" => Len(messages) % 2 = 0
    /\ pc # "Idle" => (Len(messages) % 2 = 1 /\ Last(messages) = UserTurn(prompt))
    /\ pc = "Generating" => (context # <<>> /\ ~generated)
    /\ generated => pc = "Done"

\* C10: every accepted message is one turn Idle -> Retrieving -> (Done |
\* Generating -> Done): the user turn is appended before retrieval,
\* Generating is entered only with a non-empty context, the turn ends with
\* exactly one assistant turn appended; so between turns the history is
\* empty or a strict alternation user, assistant, ... of even length, and a
\* reset (the only step that shortens the history) leaves it empty.
C10_TurnStateMachine ==
    /\ []C10_TurnStates
    /\ [][ /\ <<pc, pc'>> \in {<<"Idle", "Idle">>, <<"Idle", "Retrieving">>,
                               <<"Retrieving", "Done">>, <<"Retrieving", "Generating">>,
                               <<"Generating", "Done">>, <<"Done", "Idle">>}
           /\ (pc = "Idle" /\ pc' = "Retrieving") =>
                  \E p \in Prompts : messages' = Append(messages, UserTurn(p))
           /\ (pc = "Done" /\ pc' = "Idle") =>
                  messages' = Append(messages, AssistantTurn(response, sources))
           /\ (pc' # "Idle" /\ pc # "Idle") => messages' = messages
           /\ (pc = "Idle" /\ pc' = "Idle") => messages' \in {messages, <<>>}
           /\ Len(messages') < Len(messages) => messages' = <<>> ]_vars

\* two completed turns, the first answered by the generator, the second not
C10_Witness ==
    /\ pc = "Idle"
    /\ Len(messages) = 4
    /\ messages[2].content # NoInfoMsg
    /\ messages[4].content = NoInfoMsg

\* ------------------------- specification: process_uploaded_file called directly
InitUpload == UploadInit /\ ChatOff /\ ChunkOff /\ IngestOff /\ RetrieveOff

DirectUploadStep == DirectUpload /\ UNCHANGED <<chatVars, chunkVars, ingestVars, retrVars>>

NextUpload == DirectUploadStep

SpecUpload == InitUpload /\ [][NextUpload]_vars

\* ------------------------------------------- specification: batch ingestion
InitIngest == IngestInit /\ ChatOff /\ ChunkOff /\ UploadOff /\ RetrieveOff

StartRunStep == StartRun /\ UNCHANGED <<chatVars, chunkVars, uploadVars, retrVars>>
ProcessFileStep == ProcessFile /\ UNCHANGED <<chatVars, chunkVars, uploadVars, retrVars>>
AddAllStep == AddAll /\ UNCHANGED <<chatVars, chunkVars, uploadVars, retrVars>>

NextIngest ==
    \/ StartRunStep
    \/ ProcessFileStep
    \/ AddAllStep

SpecIngest == InitIngest /\ [][NextIngest]_vars

\* two consecutive calls with the same file
SameFileTwice(i) ==
    /\ i \in 1..(Len(up_calls) - 1)
    /\ up_calls[i].file = up_calls[i + 1].file

C9_SameIdsEveryRun ==
    (Len(runs) = 2 /\ runs[1].completed /\ runs[2].completed) =>
        runs[1].collection = runs[2].collection

\* a run of process_documents has finished with its add done
RunCompleted == ing_pc = "idle" /\ runs # <<>> /\ runs[Len(runs)].completed

\* the records the collection holds for the file named name
RecordsOf(name) == {r \in ing_collection : r.source = name}

\* the file f of the folder was handled: with non-empty extracted text every
\* chunk of it is a record of the collection (and it has no other records),
\* and a file that contributes no record is reported as skipped
FileHandled(f) ==
    LET chunks == chunk_text(ExtractText(f), DefaultChunkSize, DefaultOverlap).chunks
    IN  /\ ExtractText(f) # <<>> =>
               /\ chunks # <<>>
               /\ Cardinality(RecordsOf(f.name)) = Len(chunks)
               /\ \A i \in 1..Len(chunks) :
                      \E r \in RecordsOf(f.name) :
                          r.document = chunks[i] /\ r.chunk_id = i - 1
        /\ RecordsOf(f.name) = {} => f.name \in SeqRange(skipped)

\* C11 as stated: process_documents handles every file of the data folder
\* whose extension is one of pdf, png, jpg, jpeg, bmp, tiff, txt: its chunks
\* become records, or it is reported with a skip reason.
C11_EveryListedExtension ==
    RunCompleted =>
        \A k \in 1..Len(folder) :
            Lower(folder[k].suffix) \in {".pdf", ".png", ".jpg", ".jpeg", ".bmp", ".tiff", ".txt"}
                => FileHandled(folder[k])

\* C11 amended: a run of process_documents that completes handles every file
\* of the data folder whose extension is, in any letter case, one of pdf, png,
\* jpg, jpeg, bmp, tiff: with non-empty extracted text all of its chunks
\* become records, and a file that contributes none is reported as skipped.
\* A txt file is not read at all.
C11_PdfAndImageExtensions ==
    RunCompleted =>
        \A k \in 1..Len(folder) :
            /\ Lower(folder[k].suffix) \in {".pdf", ".png", ".jpg", ".jpeg", ".bmp", ".tiff"}
                   => FileHandled(folder[k])
            /\ folder[k].suffix = ".txt" =>
                   (RecordsOf(folder[k].name) = {} /\ folder[k].name \notin SeqRange(skipped))

\* a completed run over an upper-case PDF of two pages, which was stored, and
\* a file without text, which was skipped
C11_Witness ==
    /\ RunCompleted
    /\ Len(folder) = 2
    /\ \E k \in 1..2 : folder[k].name = "N2.PDF" /\ RecordsOf("N2.PDF") # {}
    /\ skipped # <<>>

\* ------------------------------------ specification: retrieve_context alone
InitRetrieve == RetrieveInit /\ ChatOff /\ ChunkOff /\ UploadOff /\ IngestOff

RetrieveCallStep == RetrieveCall /\ UNCHANGED <<chatVars, chunkVars, uploadVars, ingestVars>>

NextRetrieve == RetrieveCallStep

SpecRetrieve == InitRetrieve /\ [][NextRetrieve]_vars

RECURSIVE BlankLineJoined(_)
\* the texts in order, a blank line between each two neighbours
BlankLineJoined(texts) ==
    IF Len(texts) <= 1 THEN (IF texts = <<>> THEN <<>> ELSE texts[1])
    ELSE BlankLineJoined(SubSeq(texts, 1, Len(texts) - 1)) \o <<"\n", "\n">> \o texts[Len(texts)]

\* the name a hit is cited under
CitedName(h) == IF h.source = NoSource THEN "Unknown" ELSE h.source

\* C12: for hits h1..hn (n <= k) in rank order, retrieve_context returns the
\* hit texts joined by a blank line in that order, and a source collection
\* that holds each distinct source name of the hits exactly once and nothing
\* else, a hit without source metadata counting as "Unknown".
C12_ContextAndSources ==
    (rc_out # RetrievePending /\ ~rc_in.raised) =>
        /\ rc_out.stError = ""
        /\ rc_out.context =
               BlankLineJoined([i \in 1..Len(rc_in.hits) |-> rc_in.hits[i].document])
        /\ \A i, j \in 1..Len(rc_out.sources) :
               rc_out.sources[i] = rc_out.sources[j] => i = j
        /\ {rc_out.sources[i] : i \in 1..Len(rc_out.sources)}
               = {CitedName(rc_in.hits[i]) : i \in 1..Len(rc_in.hits)}

\* three hits with different texts, two of them from the same document and
\* one without source metadata, returned with two sources
C12_Witness ==
    /\ rc_out # RetrievePending
    /\ ~rc_in.raised
    /\ Len(rc_in.hits) = N_RESULTS
    /\ rc_in.hits[1].source = "n1.pdf" /\ rc_in.hits[2].source = NoSource
    /\ rc_in.hits[3].source = "n1.pdf"
    /\ rc_in.hits[1].document = <<"x">> /\ rc_in.hits[3].document = <<"y">>
    /\ rc_out.context = <<"x", "\n", "\n", "\n", "\n", "y">>
    /\ rc_out.sources = <<"Unknown", "n1.pdf">>

====
